---------------------------- MODULE Spec2Model ----------------------------
(***************************************************************************)
(* Hacklace firmware (Hacklace.c): the serial receive state machine that   *)
(* appends message bytes to the EEPROM, and the message player             *)
(* DisplayMessage that decodes a stored message into display calls.        *)
(*                                                                         *)
(* Bytes are uint8_t: every arithmetic result is reduced modulo 256.       *)
(* The EEPROM is an array of bytes starting at address `messages`; each     *)
(* specification fixes how many cells it has.                              *)
(* The dot matrix driver is external; its calls are logged as records      *)
(* [f, a, at]: function name, argument, and line of the call site.         *)
(***************************************************************************)
EXTENDS Integers, Sequences, FiniteSets, TLC

(* ---------------------------- bounds ---------------------------------- *)
\* EEPROM cells modelled when single receive interrupts are examined
RxSize == 3
\* number of bytes received after boot, and EEPROM cells modelled then
MaxRx == 6
\* EEPROM cells of the stores that DisplayMessage is run on
DMLen == 7
\* number of bytes received after the authentication "HL" when hex literals
\* are examined, and EEPROM cells modelled then
MaxHex == 5
\* number of level changes of the push button line when the whole program
\* is examined
MaxToggles == 4
\* number of bytes received when the whole program is examined
MaxRxMain == 1
\* level changes of the push button line and number of bytes received when
\* the whole program is examined with the serial line appending to the store
StoreToggles == 3
MaxRxStore == 4

(* --------------------------- constants -------------------------------- *)
Byte == 0..255

IDLE == 0
AUTH == 1
RESET == 2
DISP_SET_MODE == 3
DISP_CHAR == 4
EE_NORMAL == 5
EE_SPECIAL_CHAR == 6
EE_HEX_CODE == 7

AUTH1_CHAR == 72
EE_AUTH2_CHAR == 76
DISP_AUTH2_CHAR == 68

ESC == 27
CR == 13
LF == 10

\* EEPROM address of the first message (array `messages`, defined outside
\* Hacklace.c)
messages == 0

\* push button events and flags (config.h, outside Hacklace.c): `button`
\* holds the pressed bit, the long-press bit and the acknowledge bit that
\* the main program sets
PB_RELEASE == 0
PB_PRESS == 1
PB_LONGPRESS == 3
PB_ACK == 128
\* number of system ticks a press is held before it counts as long
PB_LONGPRESS_DELAY == 2

\* bit k of the byte m, and the bitwise operators of C on bytes
Bit(m, k) == (m \div (2 ^ k)) % 2
BitAnd(x, y) ==
    LET b(k) == Bit(x, k) * Bit(y, k) * (2 ^ k) IN
    b(0) + b(1) + b(2) + b(3) + b(4) + b(5) + b(6) + b(7)
BitNot(x) == 255 - x
BitOr(x, y) == (x + y) - BitAnd(x, y)


VARIABLES
    state,          \* ISR(USART0_RX_vect): static uint8_t state
    val,            \* ISR(USART0_RX_vect): static uint8_t val
    ee_write_ptr,   \* next EEPROM address to write
    msg_ptr,        \* pointer to next message in EEPROM
    eeprom,         \* EEPROM contents, EEAddr -> Byte
    scroll_speed,   \* scrolling speed (0 = fastest)
    rx_out,         \* display calls of the last receive interrupt
    main_pc,        \* main(): the line the main program is at
    dm_pc,          \* DisplayMessage: the line of its next EEPROM read
    ee_adr,         \* DisplayMessage: its parameter and read cursor
    dm_ret,         \* DisplayMessage: the returned pointer
    dm_out,         \* display calls of the current DisplayMessage call
    dm_reads,       \* EEPROM addresses read by the current call, in order
    rx_got,         \* the bytes received since the initial state, in order
    rx_idle,        \* when the receive state machine was last IDLE:
                    \*   [n: bytes received by then, wp: ee_write_ptr then,
                    \*    mem: EEPROM contents then]
    last,           \* the last step taken: [op, ch, fe, st, wp, mp]; st, wp
                    \* and mp are state, ee_write_ptr and msg_ptr before it
    button,         \* button event (volatile uint8_t)
    pb_timer,       \* ISR(TIMER0_COMPB_vect): static uint8_t pb_timer
    scroll_timer,   \* ISR(TIMER0_COMPB_vect): static uint8_t scroll_timer
    pb_pin,         \* level of the push button line: TRUE = button down
    ack_tmp,        \* main(): the register `button |= PB_ACK` works in
    gs_ret,         \* GoToSleep: the line of main() it returns to
    main_steps,     \* steps of the main program since the last system tick
    toggles,        \* level changes of the push button line so far
    hist            \* what has happened so far:
                    \*   appended  : EEPROM writes since the last <ESC> or boot
                    \*   esc_fresh : <ESC> was processed and no DisplayMessage
                    \*               call has begun since
                    \*   ev_seen   : the last event the tick handler issued
                    \*               has been found by a test of main()
                    \*   ev_kind   : that event, PB_RELEASE or PB_LONGPRESS
                    \*   p_down    : the last sample of the button was "down"
                    \*   p_ack, p_clear, p_idle : when the current press
                    \*               began, the acknowledge bit was set / the
                    \*               pressed bit was clear / main() was
                    \*               polling in its loop
                    \*   p_len     : samples of the current press, up to the
                    \*               long-press threshold
                    \*   p_adv, p_pd, p_long : advances, power-downs and
                    \*               long-press events of the current press

rxVars == <<state, val, ee_write_ptr, rx_out, rx_got, rx_idle>>
dmVars == <<main_pc, dm_pc, ee_adr, dm_ret, dm_out, dm_reads>>
pbVars == <<button, pb_timer, scroll_timer, pb_pin, ack_tmp, gs_ret, toggles>>
vars == <<state, val, ee_write_ptr, msg_ptr, eeprom, scroll_speed, rx_out,
          main_pc, dm_pc, ee_adr, dm_ret, dm_out, dm_reads, rx_got, rx_idle, last,
          button, pb_timer, scroll_timer, pb_pin, ack_tmp, gs_ret, main_steps,
          toggles, hist>>

\* The system tick has a period of at least 1024 CPU cycles (timer 0 with
\* prescaler 1:1024, lines 110-112): outside its busy waits the main program
\* takes at least this many steps between two ticks, a pass through its
\* polling loop
MinMainSteps == 2

\* a step of the main program
MainStepped == main_steps' = IF main_steps < MinMainSteps THEN main_steps + 1
                                                          ELSE main_steps

\* the record of a step
Step(op, ch, fe) ==
    [op |-> op, ch |-> ch, fe |-> fe,
     st |-> state, wp |-> ee_write_ptr, mp |-> msg_ptr]

(* ------------------------- display calls ------------------------------ *)
Call(f, a, at) == [f |-> f, a |-> a, at |-> at]

(* ----------------------------- SetMode -------------------------------- *)
\* conversion tables of the dot matrix configuration (defined outside
\* Hacklace.c), indexed 0..7
spd_conv == <<50, 30, 18, 11, 7, 5, 3, 2>>
dly_conv == <<0, 1, 2, 3, 5, 8, 13, 21>>

\* swap(x): exchange the two nibbles of a byte
swap(x) == ((x % 16) * 16) + (x \div 16)

\* the four fields SetMode extracts from the mode byte
ModeInc(mode) == IF (mode \div 8) % 2 = 1 THEN 5 ELSE 1
ModeDir(mode) == IF (mode \div 128) % 2 = 1 THEN "BIDIRECTIONAL" ELSE "FORWARD"
ModeSpd(mode) == mode % 8
\* ModeDly without the nibble swap
ModeDly_NoSwap(mode) == mode % 8
ModeDly(mode) == swap(mode) % 8

\* SetMode(mode): the dmSetScrolling call it makes and the scroll_speed it sets
SetMode(mode, at) ==
    [out   |-> <<Call("dmSetScrolling",
                      <<ModeInc(mode), ModeDir(mode), dly_conv[ModeDly(mode) + 1]>>,
                      at)>>,
     speed |-> spd_conv[ModeSpd(mode) + 1]]

(* ---------------------- ISR(USART0_RX_vect) --------------------------- *)
\* What one invocation of the handler does, as a record:
\*   state, val, msg_ptr, ee_write_ptr, scroll_speed : values on return
\*   wr  : the eeprom_write_byte calls, a sequence of <<address, byte>>
\*   out : the display calls, in order
RxKeep ==
    [state |-> state, val |-> val, msg_ptr |-> msg_ptr,
     ee_write_ptr |-> ee_write_ptr, scroll_speed |-> scroll_speed,
     wr |-> <<>>, out |-> <<>>]

\* EeAppend without the increment of the write cursor
EeAppend_KeepsCursor(r, b) ==
    [r EXCEPT !.wr = Append(@, <<r.ee_write_ptr, b>>)]

\* eeprom_write_byte(ee_write_ptr++, b) applied to the record r
EeAppend(r, b) ==
    [r EXCEPT !.wr = Append(@, <<r.ee_write_ptr, b>>),
              !.ee_write_ptr = @ + 1]

\* line 357: <ESC> resets the state machine
RxEsc(r, ch) == IF ch = ESC THEN [r EXCEPT !.state = RESET] ELSE r

\* RxEcho in the two display states as well
RxEcho_FromDispSetMode(r, ch) ==
    IF r.state >= DISP_SET_MODE
    THEN [r EXCEPT !.out = @ \o <<Call("dmClearDisplay", 0, 359),
                                  Call("dmPrintChar", ch, 360)>>]
    ELSE r

\* lines 358-361: echo of the received byte
RxEcho(r, ch) ==
    IF r.state >= EE_NORMAL
    THEN [r EXCEPT !.out = @ \o <<Call("dmClearDisplay", 0, 359),
                                  Call("dmPrintChar", ch, 360)>>]
    ELSE r

\* lines 364-367
CaseIDLE(r, ch) ==
    IF ch = AUTH1_CHAR THEN [r EXCEPT !.state = AUTH]
                       ELSE [r EXCEPT !.state = IDLE]

\* lines 368-372
CaseAUTH(r, ch) ==
    IF ch = EE_AUTH2_CHAR THEN [r EXCEPT !.state = EE_NORMAL]
    ELSE IF ch = DISP_AUTH2_CHAR THEN [r EXCEPT !.state = DISP_SET_MODE]
    ELSE [r EXCEPT !.state = IDLE]

\* CaseRESET without the reset of the write cursor
CaseRESET_KeepsWriteCursor(r, ch) ==
    [r EXCEPT !.msg_ptr = messages,
              !.out = @ \o <<Call("dmClearDisplay", 0, 376),
                             Call("dmPrintChar", 129, 377)>>,
              !.state = IDLE]

\* lines 373-379
CaseRESET(r, ch) ==
    [r EXCEPT !.msg_ptr = messages,
              !.ee_write_ptr = messages,
              !.out = @ \o <<Call("dmClearDisplay", 0, 376),
                             Call("dmPrintChar", 129, 377)>>,
              !.state = IDLE]

\* lines 380-384
CaseDISP_SET_MODE(r, ch) ==
    LET m == SetMode(ch, 382) IN
    [r EXCEPT !.out = @ \o <<Call("dmClearDisplay", 0, 381)>> \o m.out,
              !.scroll_speed = m.speed,
              !.state = DISP_CHAR]

\* CaseDISP_CHAR storing the displayed character
CaseDISP_CHAR_Stores(r, ch) ==
    IF ch = CR \/ ch = LF
    THEN [r EXCEPT !.out = @ \o <<Call("dmClearDisplay", 0, 386)>>]
    ELSE [EeAppend(r, ch) EXCEPT !.out = @ \o <<Call("dmPrintChar", ch, 387),
                                               Call("dmPrintByte", 0, 387)>>]

\* lines 385-388
CaseDISP_CHAR(r, ch) ==
    IF ch = CR \/ ch = LF
    THEN [r EXCEPT !.out = @ \o <<Call("dmClearDisplay", 0, 386)>>]
    ELSE [r EXCEPT !.out = @ \o <<Call("dmPrintChar", ch, 387),
                                  Call("dmPrintByte", 0, 387)>>]

\* CaseEE_NORMAL not clearing val at '$'
CaseEE_NORMAL_KeepsVal(r, ch) ==
    IF ch = 94 THEN [r EXCEPT !.state = EE_SPECIAL_CHAR]
    ELSE IF ch = 36 THEN [r EXCEPT !.state = EE_HEX_CODE]
    ELSE IF ch = CR \/ ch = LF THEN EeAppend(r, 0)
    ELSE IF ch >= 32 THEN EeAppend(r, ch)
    ELSE r

\* lines 389-398
CaseEE_NORMAL(r, ch) ==
    IF ch = 94 THEN [r EXCEPT !.state = EE_SPECIAL_CHAR]
    ELSE IF ch = 36 THEN [r EXCEPT !.val = 0, !.state = EE_HEX_CODE]
    ELSE IF ch = CR \/ ch = LF THEN EeAppend(r, 0)
    ELSE IF ch >= 32 THEN EeAppend(r, ch)
    ELSE r

\* CaseEE_SPECIAL_CHAR shifting by 96 instead of 63
CaseEE_SPECIAL_CHAR_Plus96(r, ch) ==
    [EeAppend(r, (ch + 96) % 256) EXCEPT !.state = EE_NORMAL]

\* lines 399-402
CaseEE_SPECIAL_CHAR(r, ch) ==
    [EeAppend(r, (ch + 63) % 256) EXCEPT !.state = EE_NORMAL]

\* lines 404-405: map characters '0'..'9' and 'A'..'F' to values 0..15
HexValue(ch) ==
    LET c1 == IF ch >= 65 THEN (ch - (65 - 57 - 1)) % 256 ELSE ch
    IN  (c1 - 48) % 256

\* CaseEE_HEX_CODE handing the terminating byte on to EE_NORMAL
CaseEE_HEX_CODE_Reprocess(r, ch) ==
    LET d == HexValue(ch) IN
    IF d > 15
    THEN CaseEE_NORMAL([EeAppend(r, r.val) EXCEPT !.state = EE_NORMAL], ch)
    ELSE [r EXCEPT !.val = (((@ * 16) % 256) + d) % 256]

\* lines 403-411
CaseEE_HEX_CODE(r, ch) ==
    LET d == HexValue(ch) IN
    IF d > 15
    THEN [EeAppend(r, r.val) EXCEPT !.state = EE_NORMAL]
    ELSE [r EXCEPT !.val = (((@ * 16) % 256) + d) % 256]

\* lines 363-412: switch (state)
RxSwitch(r, ch) ==
    CASE r.state = IDLE            -> CaseIDLE(r, ch)
      [] r.state = AUTH            -> CaseAUTH(r, ch)
      [] r.state = RESET           -> CaseRESET(r, ch)
      [] r.state = DISP_SET_MODE   -> CaseDISP_SET_MODE(r, ch)
      [] r.state = DISP_CHAR       -> CaseDISP_CHAR(r, ch)
      [] r.state = EE_NORMAL       -> CaseEE_NORMAL(r, ch)
      [] r.state = EE_SPECIAL_CHAR -> CaseEE_SPECIAL_CHAR(r, ch)
      [] r.state = EE_HEX_CODE     -> CaseEE_HEX_CODE(r, ch)
      [] OTHER                     -> r

\* lines 349-413: the whole handler; fe is the framing error flag of UCSRA
RxHandler(ch, fe) ==
    IF fe THEN RxKeep
    ELSE RxSwitch(RxEcho(RxEsc(RxKeep, ch), ch), ch)

\* the EEPROM after the writes of the sequence wr
RECURSIVE EeWrite(_, _)
EeWrite(mem, wr) ==
    IF wr = <<>> THEN mem
    ELSE EeWrite([mem EXCEPT ![Head(wr)[1]] = Head(wr)[2]], Tail(wr))

\* The receive interrupt with received byte ch.  Interrupts are disabled
\* while a handler runs, so the handler is one step.  A write beyond the
\* modelled EEPROM cells is outside the model.
USART0_RX_vect(ch, fe) ==
    LET r == RxHandler(ch, fe) IN
    /\ \A i \in 1..Len(r.wr) : r.wr[i][1] \in DOMAIN eeprom
    /\ state' = r.state
    /\ val' = r.val
    /\ msg_ptr' = r.msg_ptr
    /\ ee_write_ptr' = r.ee_write_ptr
    /\ scroll_speed' = r.scroll_speed
    /\ eeprom' = EeWrite(eeprom, r.wr)
    /\ rx_out' = r.out
    /\ rx_got' = IF fe THEN rx_got ELSE Append(rx_got, ch)
    /\ rx_idle' = IF r.state = IDLE
                  THEN [n |-> Len(rx_got'), wp |-> r.ee_write_ptr, mem |-> eeprom']
                  ELSE rx_idle
    /\ last' = Step("rx", ch, fe)
    /\ hist' = [hist EXCEPT
                  !.appended = IF ~fe /\ ch = ESC THEN 0 ELSE @ + Len(r.wr),
                  !.esc_fresh = IF ~fe /\ ch = ESC THEN TRUE ELSE @]
    /\ UNCHANGED <<dmVars, pbVars, main_steps>>

\* a byte arrives without framing error
Rx_Byte(ch) == USART0_RX_vect(ch, FALSE)

\* a byte arrives with a framing error: UDR is not read
Rx_FramingError == USART0_RX_vect(0, TRUE)

(* -------------------------- DisplayMessage ---------------------------- *)
\* number of animations in the animation table (animations.h)
ANIMATION_COUNT == 2

\* Each step of DisplayMessage is one eeprom_read_byte together with the
\* statements up to the next read.  A step is a record:
\*   pc    : line of the next read ("ret" when the function returns)
\*   inc   : by how much ee_adr is advanced
\*   out   : the display calls made
\*   speed : the new scroll_speed
\*   ret   : the returned pointer

DmStepRec(pc, inc, out) ==
    [pc |-> pc, inc |-> inc, out |-> out, speed |-> scroll_speed, ret |-> dm_ret]

\* lines 189-191
DmL189(ch) ==
    LET m == SetMode(ch, 189) IN
    [DmStepRec("L193", 1, m.out \o <<Call("dmClearDisplay", 0, 191)>>)
        EXCEPT !.speed = m.speed]

\* lines 194-219 for a byte ch just read as the next unit's first byte:
\* the while test and the choice of the branch, up to the branch's next read
DmUnit(ch) ==
    IF ch = 0 THEN DmStepRec("L223", 1, <<>>)
    ELSE IF ch = 126 THEN DmStepRec("L196", 1, <<>>)
    ELSE IF ch = 255 THEN DmStepRec("L205", 1, <<>>)
    ELSE IF ch = 94 THEN DmStepRec("L213", 1, <<>>)
    ELSE DmStepRec("L220", 1, <<Call("dmPrintChar", ch, 218)>>)

\* line 193
DmL193(ch) == DmUnit(ch)

\* DmSpacer without the test for the terminator
DmSpacer_Always(ch) == <<Call("dmPrintByte", 0, 221)>>

\* line 221: print a narrow space except for the last character
DmSpacer(ch) == IF ch # 0 THEN <<Call("dmPrintByte", 0, 221)>> ELSE <<>>

\* lines 220-221, then the while test
DmL220(ch) ==
    LET u == DmUnit(ch) IN [u EXCEPT !.out = DmSpacer(ch) \o @]

\* DmL196 accepting the letter one past the last animation
DmL196_OffByOne(ch) ==
    IF ch # 126
    THEN LET c == (ch - 65) % 256 IN
         IF c <= ANIMATION_COUNT
         THEN DmStepRec("L220", 1, <<Call("dmDisplayImage", c, 200)>>)
         ELSE DmStepRec("L220", 1, <<>>)
    ELSE DmStepRec("L220", 1, <<>>)

\* lines 196-202: animation
DmL196(ch) ==
    IF ch # 126
    THEN LET c == (ch - 65) % 256 IN
         IF c < ANIMATION_COUNT
         THEN DmStepRec("L220", 1, <<Call("dmDisplayImage", c, 200)>>)
         ELSE DmStepRec("L220", 1, <<>>)
    ELSE DmStepRec("L220", 1, <<>>)

\* lines 205-209: direct mode
DmL205(ch) ==
    IF ch # 255
    THEN DmStepRec("L205", 1, <<Call("dmPrintByte", ch, 207)>>)
    ELSE DmStepRec("L220", 1, <<>>)

\* DmL213 shifting by 96 instead of 63
DmL213_Plus96(ch) ==
    LET c == IF ch # 94 THEN (ch + 96) % 256 ELSE ch IN
    DmStepRec("L220", 1, <<Call("dmPrintChar", c, 218)>>)

\* lines 213-218: special character
DmL213(ch) ==
    LET c == IF ch # 94 THEN (ch + 63) % 256 ELSE ch IN
    DmStepRec("L220", 1, <<Call("dmPrintChar", c, 218)>>)

\* DmL223 returning the address after the peeked byte
DmL223_SkipsByte(ch) ==
    [DmStepRec("ret", 0, <<>>)
        EXCEPT !.ret = IF ch # 0 THEN ee_adr + 1 ELSE messages]

\* DmL223 without the wrap to `messages`
DmL223_NoWrap(ch) ==
    [DmStepRec("ret", 0, <<>>) EXCEPT !.ret = ee_adr]

\* lines 223-225: read mode byte of next message
DmL223(ch) ==
    [DmStepRec("ret", 0, <<>>)
        EXCEPT !.ret = IF ch # 0 THEN ee_adr ELSE messages]

DmBody(lbl, ch) ==
    CASE lbl = "L189" -> DmL189(ch)
      [] lbl = "L193" -> DmL193(ch)
      [] lbl = "L196" -> DmL196(ch)
      [] lbl = "L205" -> DmL205(ch)
      [] lbl = "L213" -> DmL213(ch)
      [] lbl = "L220" -> DmL220(ch)
      [] lbl = "L223" -> DmL223(ch)

\* The step of DisplayMessage at line lbl.  A read beyond the modelled
\* EEPROM cells leaves the model ("overrun").
DmAt(lbl) ==
    /\ dm_pc = lbl
    /\ IF ee_adr \in DOMAIN eeprom
       THEN LET ch == eeprom[ee_adr]
                r  == DmBody(lbl, ch)
            IN  /\ dm_pc' = r.pc
                /\ ee_adr' = ee_adr + r.inc
                /\ dm_out' = dm_out \o r.out
                /\ dm_reads' = Append(dm_reads, ee_adr)
                /\ scroll_speed' = r.speed
                /\ dm_ret' = r.ret
                /\ last' = Step(lbl, ch, FALSE)
       ELSE /\ dm_pc' = "overrun"
            /\ last' = Step(lbl, 0, FALSE)
            /\ UNCHANGED <<ee_adr, dm_out, dm_reads, scroll_speed, dm_ret>>
    /\ MainStepped
    /\ UNCHANGED <<rxVars, msg_ptr, eeprom, main_pc, pbVars, hist>>

DM_L189 == DmAt("L189")
DM_L193 == DmAt("L193")
DM_L196 == DmAt("L196")
DM_L205 == DmAt("L205")
DM_L213 == DmAt("L213")
DM_L220 == DmAt("L220")
DM_L223 == DmAt("L223")

(* ------------------------------- main --------------------------------- *)
\* line 268: msg_ptr = DisplayMessage(msg_ptr), the call ...
DmEnter(adr) ==
    [dm_pc |-> "L189", ee_adr |-> adr, dm_out |-> <<>>, dm_reads |-> <<>>]

\* ... and the assignment of the returned pointer
Main_L268_ret ==
    /\ main_pc = "L268"
    /\ dm_pc = "ret"
    /\ msg_ptr' = dm_ret
    /\ main_pc' = "L269"
    /\ dm_pc' = "idle"
    /\ last' = Step("L268", 0, FALSE)
    /\ MainStepped
    /\ UNCHANGED <<rxVars, eeprom, scroll_speed, ee_adr, dm_ret, dm_out, dm_reads,
                   pbVars, hist>>

\* a step of main() from line `from` to line `to`
MainGoes(from, to) ==
    /\ main_pc = from
    /\ main_pc' = to
    /\ last' = Step(from, 0, FALSE)
    /\ MainStepped

\* line 267: short button press?  If so, line 268 calls DisplayMessage
Main_L267 ==
    /\ dm_pc = "idle"
    /\ IF button = PB_RELEASE
       THEN /\ MainGoes("L267", "L268")
            /\ dm_pc' = DmEnter(msg_ptr).dm_pc
            /\ ee_adr' = DmEnter(msg_ptr).ee_adr
            /\ dm_out' = DmEnter(msg_ptr).dm_out
            /\ dm_reads' = DmEnter(msg_ptr).dm_reads
            /\ hist' = [hist EXCEPT !.ev_seen = TRUE, !.esc_fresh = FALSE,
                                    !.p_adv = IF @ < 2 THEN @ + 1 ELSE @]
       ELSE /\ MainGoes("L267", "L272")
            /\ UNCHANGED <<dm_pc, ee_adr, dm_out, dm_reads, hist>>
    /\ UNCHANGED <<rxVars, msg_ptr, eeprom, scroll_speed, dm_ret, pbVars>>

\* line 272: button pressed for some seconds?  If so, lines 273-275 show
\* the sad smiley and start the delay
Main_L272 ==
    /\ IF button = PB_LONGPRESS
       THEN /\ MainGoes("L272", "L275")
            /\ dm_out' = <<Call("dmClearDisplay", 0, 273),
                           Call("dmPrintChar", 130, 274)>>
            /\ hist' = [hist EXCEPT !.ev_seen = TRUE,
                                    !.p_pd = IF @ < 2 THEN @ + 1 ELSE @]
       ELSE /\ MainGoes("L272", "L267")
            /\ UNCHANGED <<dm_out, hist>>
    /\ UNCHANGED <<rxVars, msg_ptr, eeprom, scroll_speed, dm_pc, ee_adr, dm_ret,
                   dm_reads, pbVars>>

\* lines 275-276: the delay is over, GoToSleep is called
Main_L275 ==
    /\ MainGoes("L275", "L238")
    /\ gs_ret' = "L277"
    /\ UNCHANGED <<rxVars, msg_ptr, eeprom, scroll_speed, dm_pc, ee_adr, dm_ret,
                   dm_out, dm_reads, button, pb_timer, scroll_timer, pb_pin,
                   ack_tmp, toggles, hist>>

\* the lines with `button |= PB_ACK`, and the lines that follow them
AckLines == {"L263", "L269", "L277"}
AckWrite == [L263 |-> "L263w", L269 |-> "L269w", L277 |-> "L277w"]
AckNext == [L263 |-> "L267", L269 |-> "L272", L277 |-> "L267"]

\* button |= PB_ACK: the load of `button` ...
Main_AckRead ==
    \E l \in AckLines :
        /\ MainGoes(l, AckWrite[l])
        /\ ack_tmp' = button
        /\ UNCHANGED <<rxVars, msg_ptr, eeprom, scroll_speed, dm_pc, ee_adr,
                       dm_ret, dm_out, dm_reads, button, pb_timer, scroll_timer,
                       pb_pin, gs_ret, toggles, hist>>

\* ... and the store of the value with the acknowledge bit set; the
\* register is free again
Main_AckWrite ==
    \E l \in AckLines :
        /\ MainGoes(AckWrite[l], AckNext[l])
        /\ button' = BitOr(ack_tmp, PB_ACK)
        /\ ack_tmp' = 0
        /\ UNCHANGED <<rxVars, msg_ptr, eeprom, scroll_speed, dm_pc, ee_adr,
                       dm_ret, dm_out, dm_reads, pb_timer, scroll_timer,
                       pb_pin, gs_ret, toggles, hist>>

(* ----------------------------- GoToSleep ------------------------------ *)
\* line 238, then the delay of line 239 begins
Main_L238 ==
    /\ MainGoes("L238", "L239")
    /\ dm_out' = <<Call("dmClearDisplay", 0, 238)>>
    /\ UNCHANGED <<rxVars, msg_ptr, eeprom, scroll_speed, dm_pc, ee_adr, dm_ret,
                   dm_reads, pbVars, hist>>

\* the delay of line 239 is over; lines 240-243 arm the pin change interrupt
Main_L239 ==
    /\ MainGoes("L239", "L244")
    /\ UNCHANGED <<rxVars, msg_ptr, eeprom, scroll_speed, dm_pc, ee_adr, dm_ret,
                   dm_out, dm_reads, pbVars, hist>>

\* line 244: sleep_mode(); in power-down the clocks of timer and receiver
\* stand still
Main_L244 ==
    /\ MainGoes("L244", "asleep")
    /\ UNCHANGED <<rxVars, msg_ptr, eeprom, scroll_speed, dm_pc, ee_adr, dm_ret,
                   dm_out, dm_reads, pbVars, hist>>

\* lines 245-247: awake again; happy smiley, then the delay begins
Main_L245 ==
    /\ MainGoes("L245", "L247")
    /\ dm_out' = <<Call("dmPrintChar", 131, 246)>>
    /\ UNCHANGED <<rxVars, msg_ptr, eeprom, scroll_speed, dm_pc, ee_adr, dm_ret,
                   dm_reads, pbVars, hist>>

\* Main_L248_call resuming at the play cursor
Main_L248_call_Resumes ==
    /\ dm_pc = "idle"
    /\ MainGoes("L247", "L248")
    /\ dm_pc' = DmEnter(msg_ptr).dm_pc
    /\ ee_adr' = DmEnter(msg_ptr).ee_adr
    /\ dm_out' = DmEnter(msg_ptr).dm_out
    /\ dm_reads' = DmEnter(msg_ptr).dm_reads
    /\ hist' = [hist EXCEPT !.esc_fresh = FALSE]
    /\ UNCHANGED <<rxVars, msg_ptr, eeprom, scroll_speed, dm_ret, pbVars>>

\* the delay of line 247 is over; line 248 calls DisplayMessage(messages)
Main_L248_call ==
    /\ dm_pc = "idle"
    /\ MainGoes("L247", "L248")
    /\ dm_pc' = DmEnter(messages).dm_pc
    /\ ee_adr' = DmEnter(messages).ee_adr
    /\ dm_out' = DmEnter(messages).dm_out
    /\ dm_reads' = DmEnter(messages).dm_reads
    /\ hist' = [hist EXCEPT !.esc_fresh = FALSE]
    /\ UNCHANGED <<rxVars, msg_ptr, eeprom, scroll_speed, dm_ret, pbVars>>

\* line 248: the assignment of the returned pointer, and the return
Main_L248_ret ==
    /\ dm_pc = "ret"
    /\ MainGoes("L248", gs_ret)
    /\ msg_ptr' = dm_ret
    /\ dm_pc' = "idle"
    /\ UNCHANGED <<rxVars, eeprom, scroll_speed, ee_adr, dm_ret, dm_out, dm_reads,
                   pbVars, hist>>

\* a step of DisplayMessage, whichever line it is at
DM_Step == \E lbl \in {"L189", "L193", "L196", "L205", "L213", "L220", "L223"} :
               DmAt(lbl)

(* ------------------------- the push button line ----------------------- *)
\* The level of the push button line changes.  Lines 342-345: if the
\* controller is asleep, the pin change interrupt wakes it up and its empty
\* handler returns to the line after sleep_mode().
PCINT_D_vect ==
    /\ pb_pin' = ~pb_pin
    /\ toggles' = toggles + 1
    /\ main_pc' = IF main_pc = "asleep" THEN "L245" ELSE main_pc
    /\ last' = Step("pin", IF pb_pin' THEN 1 ELSE 0, FALSE)
    /\ UNCHANGED <<rxVars, msg_ptr, eeprom, scroll_speed, dm_pc, ee_adr, dm_ret,
                   dm_out, dm_reads, button, pb_timer, scroll_timer, ack_tmp,
                   gs_ret, main_steps, hist>>

(* --------------------------- timer interrupts ------------------------- *)
\* lines 288-294: the display interrupt changes nothing but the display
TIMER0_COMPA_vect ==
    /\ last' = Step("disp", 0, FALSE)
    /\ UNCHANGED <<rxVars, msg_ptr, eeprom, scroll_speed, dmVars, pbVars,
                   main_steps, hist>>

\* lines 306-312: scroll pacing
TickScroll == IF scroll_timer # 0 THEN scroll_timer - 1 ELSE scroll_speed

\* TickButton with the release clearing the long-press bit as well
TickButton_ReleaseClearsLong(down) ==
    LET keep == [button |-> button, pb_timer |-> pb_timer] IN
    IF ~down
    THEN IF BitAnd(button, PB_PRESS) # 0
         THEN [keep EXCEPT !.button = PB_RELEASE]
         ELSE keep
    ELSE IF BitAnd(button, PB_PRESS) = 0
         THEN [button |-> PB_PRESS, pb_timer |-> PB_LONGPRESS_DELAY]
         ELSE IF button = PB_PRESS
              THEN IF pb_timer = 0
                   THEN [keep EXCEPT !.button = PB_LONGPRESS]
                   ELSE [keep EXCEPT !.pb_timer = pb_timer - 1]
              ELSE keep

\* lines 314-337: push button sampling, down = the button is pressed
TickButton(down) ==
    LET keep == [button |-> button, pb_timer |-> pb_timer] IN
    IF ~down
    THEN IF BitAnd(button, PB_PRESS) # 0
         THEN [keep EXCEPT
                 !.button = BitAnd(button, BitNot(BitOr(PB_PRESS, PB_ACK)))]
         ELSE keep
    ELSE IF BitAnd(button, PB_PRESS) = 0
         THEN [button |-> PB_PRESS, pb_timer |-> PB_LONGPRESS_DELAY]
         ELSE IF button = PB_PRESS
              THEN IF pb_timer = 0
                   THEN [keep EXCEPT !.button = PB_LONGPRESS]
                   ELSE [keep EXCEPT !.pb_timer = pb_timer - 1]
              ELSE keep

\* the number of samples after which a press held from the acknowledged
\* released state becomes a long press
LongThreshold == PB_LONGPRESS_DELAY + 2

\* the lines at which main() polls `button`
PollLines == {"L267", "L272"}

\* the history after a tick that samples `down` and leaves `button` at b
HistTick(down, b) ==
    LET issued == b # button /\ b \in {PB_RELEASE, PB_LONGPRESS}
        long   == IF b = PB_LONGPRESS /\ button # PB_LONGPRESS THEN 1 ELSE 0
        h      == [hist EXCEPT !.ev_seen = IF issued THEN FALSE ELSE @,
                               !.ev_kind = IF issued THEN b ELSE @,
                               !.p_down = down]
    IN  IF down /\ ~hist.p_down
        THEN [h EXCEPT !.p_ack = BitAnd(button, PB_ACK) # 0,
                       !.p_clear = BitAnd(button, PB_PRESS) = 0,
                       !.p_idle = main_pc \in PollLines /\ dm_pc = "idle",
                       !.p_len = 1, !.p_adv = 0, !.p_pd = 0, !.p_long = long]
        ELSE IF down
        THEN [h EXCEPT !.p_len = IF @ < LongThreshold THEN @ + 1 ELSE @,
                       !.p_long = IF @ + long < 2 THEN @ + long ELSE 2]
        ELSE h

\* lines 297-339: the system timer interrupt
TIMER0_COMPB_vect ==
    LET b == TickButton(pb_pin) IN
    /\ scroll_timer' = TickScroll
    /\ button' = b.button
    /\ pb_timer' = b.pb_timer
    /\ main_steps' = 0
    /\ hist' = HistTick(pb_pin, b.button)
    /\ last' = Step("tick", IF pb_pin THEN 1 ELSE 0, FALSE)
    /\ UNCHANGED <<rxVars, msg_ptr, eeprom, scroll_speed, dmVars, pb_pin,
                   ack_tmp, gs_ret, toggles>>

(* ---------------------------- specifications -------------------------- *)
NoStep == Step("none", 0, FALSE)

\* the history at boot, with n bytes appended
HistInit(n) ==
    [appended |-> n, esc_fresh |-> FALSE, ev_seen |-> TRUE, ev_kind |-> PB_RELEASE,
     p_down |-> FALSE, p_ack |-> FALSE, p_clear |-> FALSE, p_idle |-> FALSE,
     p_len |-> 0,
     p_adv |-> 0, p_pd |-> 0, p_long |-> 0]

\* the button released and acknowledged, no press seen yet
ButtonIdle ==
    /\ button = PB_ACK
    /\ pb_timer = 0
    /\ scroll_timer = 1
    /\ pb_pin = FALSE
    /\ ack_tmp = 0
    /\ gs_ret = "L263"
    /\ main_steps = 0
    /\ toggles = 0
    /\ hist = HistInit(ee_write_ptr - messages)

\* main() waiting in its loop, DisplayMessage not running
MainIdle ==
    /\ main_pc = "L267"
    /\ dm_pc = "idle"
    /\ ee_adr = messages
    /\ dm_ret = messages
    /\ dm_out = <<>>
    /\ dm_reads = <<>>

\* the receive state machine as it is after boot or after <ESC>
SerialIdle ==
    /\ state = IDLE
    /\ val = 0
    /\ ee_write_ptr = messages
    /\ rx_out = <<>>
    /\ rx_got = <<>>

EEStates == {EE_NORMAL, EE_SPECIAL_CHAR, EE_HEX_CODE}
RxStates == {IDLE, AUTH, DISP_SET_MODE, DISP_CHAR} \cup EEStates

\* values of val that single interrupts are examined on, and the bytes the
\* EEPROM is filled with from its third cell on
ValSample == {0, 1, 15, 16, 65, 255}
FillSample == {65, 255}

\* One receive interrupt, taken in any state the state machine can be in.
\* The write cursor is away from `messages` only in the append states: they
\* are left by <ESC> only, which resets it.  The EEPROM holds an empty
\* message (mode 0, terminator) followed by nonzero bytes, so that msg_ptr
\* is `messages` (after <ESC>) or messages + 2 (after playing the first
\* message).
InitRx ==
    /\ state \in RxStates
    /\ val \in ValSample
    /\ ee_write_ptr \in messages..(messages + RxSize - 1)
    /\ state \notin EEStates => ee_write_ptr = messages
    /\ msg_ptr \in {messages, messages + 2}
    /\ \E f \in FillSample :
          eeprom = [a \in messages..(messages + RxSize - 1) |->
                        IF a < messages + 2 THEN 0 ELSE f]
    /\ scroll_speed = spd_conv[1]
    /\ rx_out = <<>>
    /\ rx_got = <<>>
    /\ rx_idle = [n |-> 0, wp |-> messages, mem |-> eeprom]
    /\ MainIdle
    /\ ButtonIdle
    /\ last = NoStep

NextRx ==
    /\ last = NoStep
    /\ \/ \E ch \in Byte : Rx_Byte(ch)
       \/ Rx_FramingError

SpecRx == InitRx /\ [][NextRx]_vars

\* The bytes sent in the sequences of received bytes that are examined
SerialAlphabet == {ESC, 32, 36, 49, 52, 72, 76}

\* Sequences of received bytes after boot, EEPROM all zero: the boot-time
\* DisplayMessage(messages) has returned `messages`
InitSerial ==
    /\ SerialIdle
    /\ msg_ptr = messages
    /\ eeprom = [a \in messages..(messages + MaxRx - 1) |-> 0]
    /\ rx_idle = [n |-> 0, wp |-> messages, mem |-> eeprom]
    /\ scroll_speed = spd_conv[1]
    /\ MainIdle
    /\ ButtonIdle
    /\ last = NoStep

NextSerial ==
    /\ Len(rx_got) < MaxRx
    /\ \/ \E ch \in SerialAlphabet : Rx_Byte(ch)
       \/ Rx_FramingError

SpecSerial == InitSerial /\ [][NextSerial]_vars

\* The stores DisplayMessage is run on: every filling of DMLen cells with
\* the bytes that DisplayMessage distinguishes, and the two-message store
\*   [0x03] "HI" [0] [0x00] "^^test" [0] [0]
HexAlphabet == {36, 48, 49, 57, 65, 70, 32, 71, 58}

\* Hex literals: the state after boot and the bytes 'H', 'L' (append mode
\* entered, nothing appended yet), then up to MaxHex bytes of HexAlphabet:
\* '$', the digits '0', '1', '9', 'A', 'F', and ' ', 'G', ':'
InitHex ==
    /\ state = EE_NORMAL
    /\ val = 0
    /\ ee_write_ptr = messages
    /\ msg_ptr = messages
    /\ eeprom = [a \in messages..(messages + MaxHex - 1) |-> 0]
    /\ scroll_speed = spd_conv[1]
    /\ rx_out = <<>>
    /\ rx_got = <<AUTH1_CHAR, EE_AUTH2_CHAR>>
    /\ rx_idle = [n |-> 0, wp |-> messages, mem |-> eeprom]
    /\ MainIdle
    /\ ButtonIdle
    /\ last = [op |-> "rx", ch |-> EE_AUTH2_CHAR, fe |-> FALSE,
               st |-> AUTH, wp |-> messages, mp |-> messages]

NextHex ==
    /\ Len(rx_got) < 2 + MaxHex
    /\ \/ \E ch \in HexAlphabet : Rx_Byte(ch)
       \/ Rx_FramingError

SpecHex == InitHex /\ [][NextHex]_vars

DMAlphabet == {0, 65, 94, 126, 255}
TwoMessages == <<3, 72, 73, 0, 0, 94, 94, 116, 101, 115, 116, 0, 0>>
TwoMessagesStore == [a \in messages..(messages + 12) |-> TwoMessages[a - messages + 1]]

\* the store whose bytes from `messages` on are the sequence s
SeqStore(s) == [a \in messages..(messages + Len(s) - 1) |-> s[a - messages + 1]]

\* The stores that run one byte through all 256 values: the mode byte of an
\* empty message, the byte after '~', and the byte after '^'
ProbeStores ==
    {SeqStore(<<m, 0, 0>>) : m \in Byte}
    \cup {SeqStore(<<0, 126, c, 0, 0>>) : c \in Byte}
    \cup {SeqStore(<<0, 94, c, 0, 0>>) : c \in Byte}

\* main() has just called DisplayMessage(msg_ptr) at line 268.  msg_ptr is
\* `messages` (after <ESC>, or after a play that wrapped), or messages + 2
\* after a play of an empty first message; or, on the two-message store,
\* messages + 4 when the store has been rewritten through the serial line
\* since the play that returned that address.
InitDM ==
    /\ \/ /\ eeprom \in [messages..(messages + DMLen - 1) -> DMAlphabet]
          /\ \/ msg_ptr = messages
             \/ /\ eeprom[messages + 1] = 0
                /\ eeprom[messages + 2] # 0
                /\ msg_ptr = messages + 2
          /\ SerialIdle
       \/ /\ eeprom = TwoMessagesStore
          /\ msg_ptr = messages
          /\ SerialIdle
       \/ /\ eeprom \in ProbeStores
          /\ msg_ptr = messages
          /\ SerialIdle
       \/ /\ eeprom = TwoMessagesStore
          /\ msg_ptr = messages + 4
          /\ state = EE_NORMAL
          /\ val = 0
          /\ ee_write_ptr = messages + Len(TwoMessages)
          /\ rx_out = <<Call("dmClearDisplay", 0, 359), Call("dmPrintChar", 32, 360)>>
          /\ rx_got = <<>>
    /\ rx_idle = [n |-> 0, wp |-> messages, mem |-> eeprom]
    /\ scroll_speed = spd_conv[1]
    /\ main_pc = "L268"
    /\ dm_pc = DmEnter(msg_ptr).dm_pc
    /\ ee_adr = DmEnter(msg_ptr).ee_adr
    /\ dm_out = DmEnter(msg_ptr).dm_out
    /\ dm_reads = DmEnter(msg_ptr).dm_reads
    /\ dm_ret = messages
    /\ ButtonIdle
    /\ last = NoStep

NextDM ==
    \/ DM_L189
    \/ DM_L193
    \/ DM_L196
    \/ DM_L205
    \/ DM_L213
    \/ DM_L220
    \/ DM_L223
    \/ Main_L268_ret

SpecDM == InitDM /\ [][NextDM]_vars

\* The whole program from boot: main() has initialised the hardware and
\* enters GoToSleep (line 262).  The store holds the message "A" (mode 7)
\* and an empty message (mode 7).
MainStore == SeqStore(<<7, 65, 0, 7, 0, 0>>)

InitMain ==
    /\ SerialIdle
    /\ msg_ptr = messages
    /\ eeprom = MainStore
    /\ rx_idle = [n |-> 0, wp |-> messages, mem |-> eeprom]
    /\ scroll_speed = 8
    /\ main_pc = "L238"
    /\ dm_pc = "idle"
    /\ ee_adr = messages
    /\ dm_ret = messages
    /\ dm_out = <<>>
    /\ dm_reads = <<>>
    /\ ButtonIdle
    /\ last = NoStep

\* in power-down nothing runs but the pin change interrupt
Awake == main_pc # "asleep"

\* the busy waits of main(): lines 239, 247 and 275
DelayLines == {"L239", "L247", "L275"}

\* a system tick comes when the main program has had its time, or is in
\* a busy wait
TickDue == main_steps >= MinMainSteps \/ main_pc \in DelayLines

\* the k-th byte of a serial line that carries the bytes of script again
\* and again
ScriptByte(script, k) == script[((k - 1) % Len(script)) + 1]

\* The button line changes up to MaxToggles times, at any moment; the serial
\* line carries <ESC>s, of which up to MaxRxMain are received, at any moment.
MainScript == <<ESC>>

NextMain ==
    \/ Main_L238
    \/ Main_L239
    \/ Main_L244
    \/ Main_L245
    \/ Main_L248_call
    \/ Main_L248_ret
    \/ Main_AckRead
    \/ Main_AckWrite
    \/ Main_L267
    \/ Main_L268_ret
    \/ Main_L272
    \/ Main_L275
    \/ DM_Step
    \/ toggles < MaxToggles /\ PCINT_D_vect
    \/ Awake /\ TickDue /\ TIMER0_COMPB_vect
    \/ Awake /\ TIMER0_COMPA_vect
    \/ Awake /\ Len(rx_got) < MaxRxMain
             /\ Rx_Byte(ScriptByte(MainScript, Len(rx_got) + 1))

SpecMain == InitMain /\ [][NextMain]_vars

\* The same program with the serial line carrying 'H', 'L', 'G', <ESC>, ...
\* (the append of one byte, then a reset), of which up to MaxRxStore bytes
\* are received, and the button line changing up to StoreToggles times.
StoreScript == <<AUTH1_CHAR, EE_AUTH2_CHAR, 71, ESC>>

NextStore ==
    \/ Main_L238
    \/ Main_L239
    \/ Main_L244
    \/ Main_L245
    \/ Main_L248_call
    \/ Main_L248_ret
    \/ Main_AckRead
    \/ Main_AckWrite
    \/ Main_L267
    \/ Main_L268_ret
    \/ Main_L272
    \/ Main_L275
    \/ DM_Step
    \/ toggles < StoreToggles /\ PCINT_D_vect
    \/ Awake /\ TickDue /\ TIMER0_COMPB_vect
    \/ Awake /\ TIMER0_COMPA_vect
    \/ Awake /\ Len(rx_got) < MaxRxStore
             /\ Rx_Byte(ScriptByte(StoreScript, Len(rx_got) + 1))

SpecStore == InitMain /\ [][NextStore]_vars

(* ----------------------- serial protocol: claims ---------------------- *)
\* the step is a receive interrupt without framing error, with byte b
RxStep(b) == last'.op = "rx" /\ ~last'.fe /\ last'.ch = b

\* the step wrote exactly byte b at the old write cursor and advanced the
\* cursor by one
Appended(b) ==
    /\ ee_write_ptr' = ee_write_ptr + 1
    /\ eeprom' = [eeprom EXCEPT ![ee_write_ptr] = b]

\* the step wrote nothing and left the write cursor alone
NoAppend == eeprom' = eeprom /\ ee_write_ptr' = ee_write_ptr

\* C1: whatever the state and the cursors, a receive interrupt that reads
\* <ESC> without framing error ends in IDLE with msg_ptr and ee_write_ptr at
\* `messages`, and writes no EEPROM byte.
C1_EscResets ==
    [][RxStep(ESC) =>
          /\ state' = IDLE
          /\ msg_ptr' = messages
          /\ ee_write_ptr' = messages
          /\ eeprom' = eeprom]_vars

\* C1 witness: <ESC> was received in EE_HEX_CODE with both cursors away from
\* `messages`
C1_Witness ==
    /\ last.op = "rx" /\ ~last.fe /\ last.ch = ESC
    /\ last.st = EE_HEX_CODE
    /\ last.wp = messages + 2
    /\ last.mp = messages + 2
    /\ eeprom = rx_idle.mem
    /\ state = IDLE
    /\ ee_write_ptr = messages
    /\ msg_ptr = messages

\* C2: the EEPROM is written and the write cursor advanced only by an
\* interrupt that starts in an append state; the append states are entered
\* only from AUTH on 'L', and AUTH only from IDLE on 'H'; an interrupt that
\* starts in IDLE, AUTH, DISP_SET_MODE or DISP_CHAR with a byte other than
\* <ESC> leaves EEPROM, write cursor and play cursor unchanged; the display
\* states are not left by such a byte; any byte but 'L' or 'D' in AUTH leads
\* to IDLE.
C2_WritesOnlyInAppendMode ==
    [][\A b \in Byte : RxStep(b) =>
          /\ (eeprom' # eeprom \/ ee_write_ptr' = ee_write_ptr + 1)
                => state \in EEStates
          /\ (state' \in EEStates /\ state \notin EEStates)
                => (state = AUTH /\ b = EE_AUTH2_CHAR)
          /\ (state' = AUTH) => (state = IDLE /\ b = AUTH1_CHAR)
          /\ (state \notin EEStates /\ b # ESC)
                => (NoAppend /\ msg_ptr' = msg_ptr)
          /\ (state \in {DISP_SET_MODE, DISP_CHAR} /\ b # ESC)
                => state' = DISP_CHAR
          /\ (state = AUTH /\ b \notin {EE_AUTH2_CHAR, DISP_AUTH2_CHAR})
                => state' = IDLE]_vars

\* C2 witness: a printable byte was received in DISP_CHAR and the EEPROM
\* and the cursors are as before
C2_Witness ==
    /\ last.op = "rx" /\ ~last.fe /\ last.ch = 65
    /\ last.st = DISP_CHAR
    /\ state = DISP_CHAR
    /\ ee_write_ptr = last.wp
    /\ msg_ptr = last.mp
    /\ last.mp = messages + 2
    /\ eeprom = rx_idle.mem

\* C3: what a byte other than <ESC> does in EE_NORMAL and EE_SPECIAL_CHAR.
C3_AppendMode ==
    [][\A b \in Byte \ {ESC} : RxStep(b) =>
          /\ state = EE_NORMAL =>
                IF b = 94 THEN NoAppend /\ state' = EE_SPECIAL_CHAR
                ELSE IF b = 36 THEN NoAppend /\ val' = 0 /\ state' = EE_HEX_CODE
                ELSE IF b \in {CR, LF} THEN Appended(0) /\ state' = EE_NORMAL
                ELSE IF b >= 32 THEN Appended(b) /\ state' = EE_NORMAL
                ELSE NoAppend /\ state' = EE_NORMAL
          /\ state = EE_SPECIAL_CHAR =>
                Appended((b + 63) % 256) /\ state' = EE_NORMAL]_vars

\* C3 witness: byte 200 was received in EE_SPECIAL_CHAR and 200 + 63 - 256
\* = 7 was appended
C3_Witness ==
    /\ last.op = "rx" /\ ~last.fe /\ last.ch = 200
    /\ last.st = EE_SPECIAL_CHAR
    /\ state = EE_NORMAL
    /\ ee_write_ptr = last.wp + 1
    /\ eeprom[last.wp] = 7

\* the bytes 'H' 'L' '$' '4' '1' ' '
HexScript == <<72, 76, 36, 52, 49, 32>>

\* the bytes received since the state machine was last IDLE are HexScript
HexScriptReceived ==
    /\ Len(rx_got) = rx_idle.n + Len(HexScript)
    /\ SubSeq(rx_got, rx_idle.n + 1, Len(rx_got)) = HexScript

\* C4 as stated: after 'H' 'L' '$' '4' '1' ' ' received from IDLE with the
\* write cursor at w, 0x41 is at w, the space is at w+1, the write cursor is
\* w+2 and the state EE_NORMAL.
C4_SpaceAlsoAppended ==
    HexScriptReceived =>
        LET w == rx_idle.wp IN
        /\ eeprom[w] = 65
        /\ eeprom[w + 1] = 32
        /\ ee_write_ptr = w + 2
        /\ state = EE_NORMAL

\* C4 amended: after 'H' 'L' '$' '4' '1' ' ' received from IDLE with the
\* write cursor at w, 0x41 is at w, the write cursor is w+1, the state is
\* EE_NORMAL and no other EEPROM cell has changed: the space ends the hex
\* literal and is not appended.
C4_SpaceOnlyTerminates ==
    HexScriptReceived =>
        LET w == rx_idle.wp IN
        /\ eeprom = [rx_idle.mem EXCEPT ![w] = 65]
        /\ ee_write_ptr = w + 1
        /\ state = EE_NORMAL

\* C4 witness: the six bytes have been received
C4_Witness ==
    /\ HexScriptReceived
    /\ last.op = "rx" /\ last.ch = 32 /\ last.st = EE_HEX_CODE
    /\ eeprom[rx_idle.wp] = 65

\* the characters '0'..'9' and 'A'..'F'
HexChars == (48..57) \cup (65..70)

\* C5 as stated: in EE_HEX_CODE every byte outside '0'..'9', 'A'..'F' (and
\* not <ESC>) appends the accumulated value, leaves the accumulator alone
\* and returns to EE_NORMAL; the bytes in '0'..'9', 'A'..'F' append nothing
\* and keep the state EE_HEX_CODE.
C5_NonHexTerminates ==
    [][\A b \in Byte \ {ESC} : (RxStep(b) /\ state = EE_HEX_CODE) =>
          IF b \in HexChars
          THEN NoAppend /\ state' = EE_HEX_CODE
          ELSE Appended(val) /\ state' = EE_NORMAL /\ val' = val]_vars

(* ------------------------ DisplayMessage: claims ---------------------- *)
\* the address DisplayMessage was called with: its first read
DmArg == dm_reads[1]

\* the calls that render: all but dmSetScrolling and dmClearDisplay, as
\* pairs <<function, argument>>
Rendered(out) ==
    LET r == SelectSeq(out, LAMBDA c : c.f \notin {"dmSetScrolling", "dmClearDisplay"})
    IN  [i \in 1..Len(r) |-> <<r[i].f, r[i].a>>]

PrintChar(c) == <<"dmPrintChar", c>>
Spacer == <<"dmPrintByte", 0>>

\* C6: when DisplayMessage returns, with t the address of the zero byte read
\* last before the final read, the final read is at t+1 and the returned
\* pointer is t+1 if the byte there is nonzero and `messages` if it is zero.
C6_ReturnsNextOrBase ==
    dm_pc = "ret" =>
        LET n == Len(dm_reads)
            t == dm_reads[n - 1]
        IN  /\ n >= 3
            /\ eeprom[t] = 0
            /\ dm_reads[n] = t + 1
            /\ dm_ret = IF eeprom[t + 1] # 0 THEN t + 1 ELSE messages

\* C6 witness: DisplayMessage(messages + 2) has returned the address after
\* its terminator, which is not `messages`
C6_Witness ==
    /\ dm_pc = "ret"
    /\ DmArg = messages + 2
    /\ dm_ret = dm_reads[Len(dm_reads) - 1] + 1
    /\ eeprom[dm_ret] # 0

\* C7 as stated: on the two-message store, DisplayMessage(messages) renders
\* 'H', spacer, 'I' and returns messages+4; DisplayMessage(messages+4)
\* renders '^','t','e','s','t' with spacers between and returns `messages`.
C7_TwoMessagesNext ==
    (dm_pc = "ret" /\ eeprom = TwoMessagesStore) =>
        /\ DmArg = messages =>
              /\ Rendered(dm_out) = <<PrintChar(72), Spacer, PrintChar(73)>>
              /\ dm_ret = messages + 4
        /\ DmArg = messages + 4 =>
              /\ Rendered(dm_out) =
                    <<PrintChar(94), Spacer, PrintChar(116), Spacer,
                      PrintChar(101), Spacer, PrintChar(115), Spacer,
                      PrintChar(116)>>
              /\ dm_ret = messages

\* C7 amended: on the two-message store, DisplayMessage(messages) renders
\* 'H', spacer, 'I' and returns `messages`, because the second message's
\* mode byte is 0; DisplayMessage(messages+4) renders '^','t','e','s','t'
\* with spacers between and returns `messages`.
C7_TwoMessagesWrap ==
    (dm_pc = "ret" /\ eeprom = TwoMessagesStore) =>
        /\ DmArg = messages =>
              /\ Rendered(dm_out) = <<PrintChar(72), Spacer, PrintChar(73)>>
              /\ dm_ret = messages
        /\ DmArg = messages + 4 =>
              /\ Rendered(dm_out) =
                    <<PrintChar(94), Spacer, PrintChar(116), Spacer,
                      PrintChar(101), Spacer, PrintChar(115), Spacer,
                      PrintChar(116)>>
              /\ dm_ret = messages

\* C7 witness: the first message of the two-message store has been played
C7_Witness ==
    /\ dm_pc = "ret"
    /\ eeprom = TwoMessagesStore
    /\ DmArg = messages
    /\ dm_reads = <<0, 1, 2, 3, 4>>

\* The message body grammar.  RunEnd: address of the 0xFF that ends the
\* direct-mode run whose raw bytes start at adr (-1: none).
RECURSIVE RunEnd(_, _)
RunEnd(mem, adr) ==
    IF adr \notin DOMAIN mem THEN -1
    ELSE IF mem[adr] = 255 THEN adr
    ELSE RunEnd(mem, adr + 1)

\* the letters that name an animation
AnimationLetters == 65..(65 + ANIMATION_COUNT - 1)

\* BodyUnits: the units of the body that starts at adr, up to its zero
\* terminator, each given as the number of display calls it stands for
\* (literal, '^'-escape, animation reference: 1; direct-mode run: one per
\* raw byte); -1 where the bytes are not a unit.
RECURSIVE BodyUnits(_, _)
BodyUnits(mem, adr) ==
    IF adr \notin DOMAIN mem THEN <<-1>>
    ELSE LET b == mem[adr] IN
         IF b = 0 THEN <<>>
         ELSE IF b = 94
              THEN IF adr + 1 \in DOMAIN mem /\ mem[adr + 1] # 0
                   THEN <<1>> \o BodyUnits(mem, adr + 2) ELSE <<-1>>
         ELSE IF b = 126
              THEN IF adr + 1 \in DOMAIN mem /\ mem[adr + 1] \in AnimationLetters
                   THEN <<1>> \o BodyUnits(mem, adr + 2) ELSE <<-1>>
         ELSE IF b = 255
              THEN LET e == RunEnd(mem, adr + 1) IN
                   IF e # -1
                   THEN <<e - adr - 1>> \o BodyUnits(mem, e + 1) ELSE <<-1>>
         ELSE IF b >= 32 THEN <<1>> \o BodyUnits(mem, adr + 1)
         ELSE <<-1>>

WellFormed(units) == \A i \in 1..Len(units) : units[i] >= 0

\* the calls of the units with one spacer "S" between consecutive units
RECURSIVE UnitsShape(_)
UnitsShape(units) ==
    IF units = <<>> THEN <<>>
    ELSE [i \in 1..Head(units) |-> "U"]
         \o (IF Tail(units) # <<>> THEN <<"S">> ELSE <<>>)
         \o UnitsShape(Tail(units))

\* the rendering calls made: "S" for the spacer of line 221, "U" for others
OutShape(out) ==
    LET r == SelectSeq(out, LAMBDA c : c.f \notin {"dmSetScrolling", "dmClearDisplay"})
    IN  [i \in 1..Len(r) |->
            IF r[i].f = "dmPrintByte" /\ r[i].at = 221 THEN "S" ELSE "U"]

\* C8: for a well-formed body of n >= 1 units, DisplayMessage makes the calls
\* of the units with exactly one spacer between consecutive units: n-1
\* spacers, none first, none last, none inside a direct-mode run.
C8_SpacersBetweenUnits ==
    dm_pc = "ret" =>
        LET units == BodyUnits(eeprom, DmArg + 1) IN
        (WellFormed(units) /\ Len(units) >= 1) =>
            /\ OutShape(dm_out) = UnitsShape(units)
            /\ Len(SelectSeq(OutShape(dm_out), LAMBDA x : x = "S")) = Len(units) - 1

\* C8 witness: a body of a literal and a direct-mode run of a raw zero byte
\* has been played
C8_Witness ==
    /\ dm_pc = "ret"
    /\ DmArg = messages
    /\ BodyUnits(eeprom, messages + 1) = <<1, 1>>
    /\ eeprom[messages + 2] = 255
    /\ eeprom[messages + 3] = 0
    /\ OutShape(dm_out) = <<"U", "S", "U">>

\* the step reads the byte b at line lbl of DisplayMessage
DmStep(lbl, b) ==
    dm_pc = lbl /\ dm_pc' # "overrun" /\ last'.op = lbl /\ last'.ch = b

\* C9 as stated: the second '~' of a stored pair '~','~' makes DisplayMessage
\* render the character '~' with one dmPrintChar call.
C9_DoubledTildeIsLiteral ==
    [][DmStep("L196", 126) =>
          /\ Len(dm_out') = Len(dm_out) + 1
          /\ Rendered(dm_out')[Len(Rendered(dm_out'))] = PrintChar(126)]_vars

C14_ModeFields ==
    [][LET m == last'.ch IN
       DmStep("L189", m) =>
          /\ dm_out' = dm_out \o
                <<Call("dmSetScrolling",
                       <<IF Bit(m, 3) = 1 THEN 5 ELSE 1,
                         IF Bit(m, 7) = 1 THEN "BIDIRECTIONAL" ELSE "FORWARD",
                         dly_conv[(4 * Bit(m, 6)) + (2 * Bit(m, 5)) + Bit(m, 4) + 1]>>,
                       189),
                  Call("dmClearDisplay", 0, 191)>>
          /\ scroll_speed' =
                spd_conv[(4 * Bit(m, 2)) + (2 * Bit(m, 1)) + Bit(m, 0) + 1]]_vars

\* C14 witness: DisplayMessage has set mode 0x9B: increment 5, bidirectional,
\* delay index 1, speed index 3
C14_Witness ==
    /\ last.op = "L189" /\ last.ch = 155
    /\ dm_pc = "L193"
    /\ dm_out[1] = Call("dmSetScrolling", <<5, "BIDIRECTIONAL", dly_conv[2]>>, 189)
    /\ scroll_speed = spd_conv[4]

\* FirstZero: the first zero byte at or after adr that lies outside a
\* direct-mode run, a zero directly after '^' or '~' included; -1 if the
\* store holds none.
RECURSIVE FirstZero(_, _)
FirstZero(mem, adr) ==
    IF adr \notin DOMAIN mem THEN -1
    ELSE LET b == mem[adr] IN
         IF b = 0 THEN adr
         ELSE IF b \in {94, 126}
              THEN IF adr + 1 \in DOMAIN mem /\ mem[adr + 1] = 0
                   THEN adr + 1 ELSE FirstZero(mem, adr + 2)
         ELSE IF b = 255
              THEN LET e == RunEnd(mem, adr + 1) IN
                   IF e = -1 THEN -1 ELSE FirstZero(mem, e + 1)
         ELSE FirstZero(mem, adr + 1)

\* C16 as stated: DisplayMessage(a) stops decoding at the first zero byte z
\* of the body outside a direct-mode run, a zero directly after '^' or '~'
\* included: it reads exactly the bytes a..z+1 and, where z and z+1 are
\* cells of the store, it does not run beyond the store.
C16_StopsAtFirstZero ==
    LET z == FirstZero(eeprom, DmArg + 1) IN
    /\ dm_pc = "ret" =>
          /\ z # -1
          /\ dm_reads = [i \in 1..(z + 2 - DmArg) |-> DmArg + i - 1]
    /\ (dm_pc = "overrun" /\ dm_reads # <<>>) =>
          (z = -1 \/ z + 1 \notin DOMAIN eeprom)

\* C17: the byte c after a stored '~', when it is neither '~' nor one of the
\* first ANIMATION_COUNT upper-case letters, makes no display call and
\* changes neither scroll speed nor return value; decoding goes on at the
\* next byte with the spacer test, as it does after a valid letter, which
\* makes exactly one dmDisplayImage call.  DisplayMessage of the message
\* '~', c reads the same bytes and returns the same pointer for every c.
C17_BadAnimationIgnored ==
    /\ []((/\ dm_pc = "ret"
            /\ DOMAIN eeprom = messages..(messages + 4)
            /\ eeprom = SeqStore(<<0, 126, eeprom[messages + 2], 0, 0>>)) =>
             LET c == eeprom[messages + 2] IN
                /\ dm_reads = <<messages, messages + 1, messages + 2,
                                messages + 3, messages + 4>>
                /\ dm_ret = messages
                /\ Rendered(dm_out) =
                      IF c \in AnimationLetters
                      THEN <<<<"dmDisplayImage", c - 65>>>> ELSE <<>>)
    /\ [][LET c == last'.ch IN
          /\ (DmStep("L196", c) /\ c # 126 /\ c \notin AnimationLetters) =>
                /\ dm_out' = dm_out
                /\ dm_pc' = "L220"
                /\ ee_adr' = ee_adr + 1
                /\ scroll_speed' = scroll_speed
                /\ dm_ret' = dm_ret
          /\ (DmStep("L196", c) /\ c \in AnimationLetters) =>
                /\ dm_out' = Append(dm_out, Call("dmDisplayImage", c - 65, 200))
                /\ dm_pc' = "L220"
                /\ ee_adr' = ee_adr + 1
                /\ scroll_speed' = scroll_speed
                /\ dm_ret' = dm_ret]_vars

\* C17 witness: the message '~', 'C' (the letter one past the last
\* animation) has been played: nothing rendered, five bytes read
C17_Witness ==
    /\ eeprom = SeqStore(<<0, 126, 65 + ANIMATION_COUNT, 0, 0>>)
    /\ dm_pc = "ret"
    /\ Rendered(dm_out) = <<>>
    /\ Len(dm_reads) = 5
    /\ dm_ret = messages

\* the display calls of the receive step, as pairs <<function, argument>>
RxCalls == [i \in 1..Len(rx_out') |-> <<rx_out'[i].f, rx_out'[i].a>>]

\* the receive step began by clearing the display and rendering byte b
Echoed(b) ==
    /\ Len(RxCalls) >= 2
    /\ RxCalls[1] = <<"dmClearDisplay", 0>>
    /\ RxCalls[2] = PrintChar(b)

\* C18 as stated: for a received byte other than <ESC>, the handler clears
\* the display and renders the byte exactly when the state at the start is
\* none of IDLE, AUTH, RESET: in DISP_SET_MODE and DISP_CHAR as well as in
\* the three append states.
C18_EchoOutsideIdleAuthReset ==
    [][LET b == last'.ch IN
       (RxStep(b) /\ b # ESC) =>
          (Echoed(b) <=> state \notin {IDLE, AUTH, RESET})]_vars

\* C18 amended: for a received byte other than <ESC>, the handler clears the
\* display and renders the byte exactly when the state at the start is one
\* of EE_NORMAL, EE_SPECIAL_CHAR, EE_HEX_CODE.  In DISP_SET_MODE it clears
\* the display and sets the mode without rendering the byte; in DISP_CHAR it
\* renders the byte and a spacer without clearing, and for CR or LF clears
\* without rendering; in IDLE and AUTH it makes no display call.
C18_EchoInAppendStates ==
    [][LET b == last'.ch IN
       (RxStep(b) /\ b # ESC) =>
          /\ Echoed(b) <=> state \in EEStates
          /\ state \in EEStates => Len(RxCalls) = 2
          /\ state = DISP_SET_MODE =>
                /\ Len(RxCalls) = 2
                /\ RxCalls[1] = <<"dmClearDisplay", 0>>
                /\ RxCalls[2][1] = "dmSetScrolling"
          /\ state = DISP_CHAR =>
                RxCalls = IF b \in {CR, LF}
                          THEN <<<<"dmClearDisplay", 0>>>>
                          ELSE <<PrintChar(b), Spacer>>
          /\ state \in {IDLE, AUTH} => RxCalls = <<>>]_vars

\* C18 witness: the byte 'A' received in EE_SPECIAL_CHAR has been echoed
C18_Witness ==
    /\ last.op = "rx" /\ ~last.fe /\ last.ch = 65
    /\ last.st = EE_SPECIAL_CHAR
    /\ rx_out = <<Call("dmClearDisplay", 0, 359), Call("dmPrintChar", 65, 360)>>

\* the value of the hex digit c, '0'..'9' or 'A'..'F'
HexDigitValue(c) == IF c <= 57 THEN c - 48 ELSE c - 55

\* the big-endian value of a sequence of hex digits
RECURSIVE BigEndian(_)
BigEndian(digs) ==
    IF digs = <<>> THEN 0
    ELSE (16 * BigEndian(SubSeq(digs, 1, Len(digs) - 1)))
         + HexDigitValue(digs[Len(digs)])

\* the position of the last '$' among the first n received bytes, 0 if none
LastDollar(n) ==
    LET ps == {p \in 1..n : rx_got[p] = 36} IN
    IF ps = {} THEN 0 ELSE CHOOSE p \in ps : \A q \in ps : q <= p

\* C19: when a byte ends a hex literal whose bytes after the '$' are k >= 0
\* hex digits, exactly one byte is appended, at the write cursor: the
\* big-endian value of the digits mod 256 (the last two digits for k > 2,
\* zero for k = 0); a hex digit received inside the literal appends nothing.
C19_HexLiteralValue ==
    /\ []((/\ last.op = "rx" /\ ~last.fe
           /\ last.st = EE_HEX_CODE
           /\ state = EE_NORMAL) =>
            LET n    == Len(rx_got)
                p    == LastDollar(n - 1)
                digs == SubSeq(rx_got, p + 1, n - 1)
            IN  /\ p > 0
                /\ (\A i \in 1..Len(digs) : digs[i] \in HexChars) =>
                      /\ ee_write_ptr = last.wp + 1
                      /\ eeprom[last.wp] = BigEndian(digs) % 256
                      /\ Len(digs) = 0 => eeprom[last.wp] = 0
                      /\ Len(digs) > 2 =>
                            eeprom[last.wp] =
                               BigEndian(SubSeq(digs, Len(digs) - 1, Len(digs))))
    /\ [][LET b == last'.ch IN
          (RxStep(b) /\ state = EE_HEX_CODE /\ b \in HexChars) =>
              (NoAppend /\ state' = EE_HEX_CODE)]_vars

\* C19 witness: "$1AF" and a space have appended the byte 0xAF
C19_Witness ==
    /\ rx_got = <<AUTH1_CHAR, EE_AUTH2_CHAR, 36, 49, 65, 70, 32>>
    /\ state = EE_NORMAL
    /\ ee_write_ptr = messages + 1
    /\ eeprom[messages] = 175

\* C19 witness for k = 0: '$' and a space have appended a zero byte after
\* the byte of "$1 "
C19_WitnessEmpty ==
    /\ rx_got = <<AUTH1_CHAR, EE_AUTH2_CHAR, 36, 49, 32, 36, 32>>
    /\ ee_write_ptr = messages + 2
    /\ eeprom[messages] = 1
    /\ eeprom[messages + 1] = 0

(* ------------------------ the whole program: claims ------------------- *)
\* the last press is over, it was shorter than the long-press threshold,
\* the main program is back in its polling loop with the event acknowledged
PressOver == ~hist.p_down /\ hist.p_len > 0
ShortPress == hist.p_len < LongThreshold
Quiescent ==
    /\ main_pc \in PollLines
    /\ dm_pc = "idle"
    /\ BitAnd(button, PB_ACK) # 0

\* the tick samples the first "down" of a new press
PressBegins == last'.op = "tick" /\ hist'.p_down /\ ~hist.p_down

\* What C11 says of a press: a short press gets no power-down, no long-press
\* event and at most one advance; a long press gets no advance, one
\* long-press event and at most one power-down ...
PressCounts ==
    IF ShortPress
    THEN hist.p_pd = 0 /\ hist.p_long = 0 /\ hist.p_adv <= 1
    ELSE hist.p_adv = 0 /\ hist.p_long = 1 /\ hist.p_pd <= 1

\* ... and a short press that is over has got its advance, a long press its
\* power-down.
PressDone == IF ShortPress THEN hist.p_adv = 1 ELSE hist.p_pd = 1

\* the press began while no button event was pending (the acknowledge bit
\* was set); it began while, besides, `button` did not say "pressed" and
\* main() was polling in its loop
BeganAcked == hist.p_len > 0 /\ hist.p_ack
BeganPolled == BeganAcked /\ hist.p_clear /\ hist.p_idle

C11_WitnessShort ==
    /\ BeganPolled
    /\ PressOver /\ ShortPress /\ Quiescent
    /\ hist.p_adv = 1 /\ hist.p_pd = 0

\* the step is the store of `button |= PB_ACK`
AckWritten == last'.op \in {"L263w", "L269w", "L277w"}

\* the step is a test of main() that finds its event
EventFound ==
    \/ last'.op = "L267" /\ main_pc' = "L268"
    \/ last'.op = "L272" /\ main_pc' = "L275"

\* C12 as stated: no event issued by the tick handler is lost by the
\* acknowledgement of the main program (the store of `button |= PB_ACK`
\* never overwrites a release or long-press event that no test has found),
\* none is handled twice (a test finds only an event not found before), and
\* the tick handler issues no event of the kind of the last event while
\* that event has not been found.
C12_EventsConsumedOnce ==
    [][/\ AckWritten => ~(button \in {PB_RELEASE, PB_LONGPRESS} /\ ~hist.ev_seen)
       /\ EventFound => ~hist.ev_seen
       /\ (last'.op = "tick" /\ button' # button
             /\ button' \in {PB_RELEASE, PB_LONGPRESS}) =>
                ~(~hist.ev_seen /\ hist.ev_kind = button')]_vars

\* the lines of GoToSleep and of the long-press branch of main()
PowerDownLines == {"L275", "L238", "L239", "L244", "asleep", "L245", "L247", "L248"}

\* C13: GoToSleep calls DisplayMessage with `messages` whatever msg_ptr is,
\* the message played is the one at `messages` (the message "A" of the
\* store, whose successor is at messages + 3), msg_ptr is set to the value
\* returned; no step of the power-down sequence changes the EEPROM or the
\* write cursor.
C13_WakePlaysBase ==
    /\ [](main_pc = "L248" =>
            /\ dm_reads # <<>> => dm_reads[1] = messages
            /\ (dm_pc = "ret" /\ eeprom = MainStore) =>
                  /\ Rendered(dm_out) = <<PrintChar(65)>>
                  /\ dm_ret = messages + 3)
    /\ [][/\ last'.op = "L247" =>
                (dm_pc' = "L189" /\ ee_adr' = messages /\ dm_reads' = <<>>)
          /\ last'.op = "L248" =>
                (msg_ptr' = dm_ret /\ main_pc' = gs_ret /\ dm_reads[1] = messages)
          /\ (main_pc \in PowerDownLines /\ last'.op # "rx") =>
                (eeprom' = eeprom /\ ee_write_ptr' = ee_write_ptr)]_vars

\* C13 witness: after a long press with msg_ptr at messages + 3, the device
\* has woken up, played the message at `messages` and set msg_ptr
C13_Witness ==
    /\ last.op = "L248" /\ last.mp = messages + 3
    /\ gs_ret = "L277" /\ main_pc = "L277"
    /\ hist.p_pd = 1
    /\ dm_reads[1] = messages
    /\ msg_ptr = dm_ret

\* C15: the write cursor is `messages` plus the number of EEPROM writes
\* since the last <ESC> (or boot); it changes only in a receive interrupt,
\* either by +1 together with one EEPROM write at the old cursor, or to
\* `messages` on <ESC> with no write; no other step writes the EEPROM.
C15_WriteCursor ==
    /\ [](ee_write_ptr = messages + hist.appended)
    /\ [][/\ ee_write_ptr' # ee_write_ptr =>
                /\ last'.op = "rx"
                /\ \/ /\ ee_write_ptr' = ee_write_ptr + 1
                      /\ hist'.appended = hist.appended + 1
                      /\ \E b \in Byte : eeprom' = [eeprom EXCEPT ![ee_write_ptr] = b]
                   \/ /\ last'.ch = ESC
                      /\ ee_write_ptr' = messages
                      /\ eeprom' = eeprom
          /\ eeprom' # eeprom =>
                (last'.op = "rx" /\ ee_write_ptr' = ee_write_ptr + 1)
          /\ last'.op # "rx" => hist'.appended = hist.appended]_vars

\* C15 witness: one byte has been appended while the main program was
\* inside DisplayMessage
C15_Witness ==
    /\ last.op = "rx" /\ last.ch = 71
    /\ ee_write_ptr = messages + 1
    /\ hist.appended = 1
    /\ eeprom[messages] = 71
    /\ dm_pc \notin {"idle", "ret"}

\* C15 witness for the reset: <ESC> has taken the write cursor from
\* messages + 1 back to `messages`
C15_WitnessReset ==
    /\ last.op = "rx" /\ last.ch = ESC /\ last.wp = messages + 1
    /\ ee_write_ptr = messages
    /\ hist.appended = 0

\* C20 as stated: the short-press advance that follows an <ESC>, with no
\* DisplayMessage call begun in between, plays the message at `messages`.
C20_AdvanceAfterEscPlaysBase ==
    [][(last'.op = "L267" /\ main_pc' = "L268" /\ hist.esc_fresh) =>
          ee_adr' = messages]_vars

====
